---- MODULE Spec2Model ----
(***************************************************************************)
(* A model of the MCP challenge server: the tool registry / dispatcher     *)
(* (mcp_server/tools/tool_registry.py) and the tools it routes to, with    *)
(* the SQLite-backed task manager (mcp_server/tools/task_manager_tool.py)  *)
(* modelled row by row.                                                    *)
(*                                                                         *)
(* Texts are sequences of string pieces (an f-string is the concatenation  *)
(* of its literal and interpolated pieces); numbers interpolated into a    *)
(* text are rendered to decimal digits.                                    *)
(***************************************************************************)
EXTENDS Integers, Sequences, FiniteSets, TLC

VARIABLES
    tools,      \* ToolRegistry._tools: insertion-ordered dict, name -> tool
    rows,       \* the tasks table, in rowid order
    nextId,     \* the AUTOINCREMENT counter of the tasks table (sqlite_sequence + 1)
    journal,    \* work_log.txt: whether it exists, and its content as characters
    logged,     \* the successful logWork calls so far: description and time of each
    clock,      \* the wall clock (CURRENT_TIMESTAMP, datetime.now()), in whole seconds
    calls,      \* how many registry calls were made (bounds the whole-server model)
    request,    \* the last execute_tool call: name, arguments, injected failure
    executed,   \* the tool executions started by the last execute_tool call
    response,   \* the outcome of the last execute_tool call
    conns       \* per server process sharing tasks.db: where its taskManager call stands

vars == <<tools, rows, nextId, journal, logged, clock, calls, request, executed,
          response, conns>>

(***************************************************************************)
(* Bounds                                                                  *)
(***************************************************************************)
\* seconds the clock may advance
MaxClock == 1
\* registry calls in the whole-server specification
MaxCalls == 2
\* journal entries that may be written
MaxLog == 2
\* the longest path string handed to the path resolution
MaxPath == 4

(***************************************************************************)
(* Python values                                                           *)
(***************************************************************************)
None == "<None>"

\* a presence check that lets the empty string through
TruthyNotNone(v) == v # None

\* bool(v) of an argument value: None and the empty string are falsy
Truthy(v) == v # None /\ v # ""

\* arguments.get(key): the value under key, None when the key is absent
Get(arguments, key) == IF key \in DOMAIN arguments THEN arguments[key] ELSE None

\* arguments.get(key, default)
GetOr(arguments, key, default) ==
    IF key \in DOMAIN arguments THEN arguments[key] ELSE default

\* The characters of the strings that are read character by character
\* (paths, journal descriptions).
Chars(s) ==
    CASE s = "" -> <<>>
      [] s = "w" -> <<"w">>
      [] s = " " -> <<" ">>
      [] s = "a\nb" -> <<"a", "\n", "b">>
      [] s = "c\rd" -> <<"c", "\r", "d">>
      [] s = "a.py" -> <<"a", ".", "p", "y">>
      [] s = "e.py" -> <<"e", ".", "p", "y">>
      [] s = "n.py" -> <<"n", ".", "p", "y">>
      [] s = "/c.py" -> <<"/", "c", ".", "p", "y">>
      [] s = "no.py" -> <<"n", "o", ".", "p", "y">>
      [] s = "work_log.txt" -> <<"w", "o", "r", "k", "_", "l", "o", "g", ".", "t", "x", "t">>
      [] s = "/b.py" -> <<"/", "b", ".", "p", "y">>
      [] s = "/srv" -> <<"/", "s", "r", "v">>

\* TextContent(type="text", text=...)
TextContent(text) == [type |-> "text", text |-> text]

Digits == <<"0", "1", "2", "3", "4", "5", "6", "7", "8", "9">>

\* str(n) of a non-negative integer, as its decimal digits
RECURSIVE IntStr(_)
IntStr(n) == IF n < 10 THEN <<Digits[n + 1]>>
             ELSE IntStr(n \div 10) \o <<Digits[(n % 10) + 1]>>

\* sep.join(parts) on texts
RECURSIVE Join(_, _)
Join(parts, sep) == IF Len(parts) = 0 THEN <<>>
                    ELSE IF Len(parts) = 1 THEN parts[1]
                    ELSE parts[1] \o sep \o Join(Tail(parts), sep)


(***************************************************************************)
(* The tasks table (TaskManagerTool._init_database)                        *)
(***************************************************************************)
Complete == "complete"
NotComplete == "not complete"

\* the table without its CHECK constraint
StatusCheckOff(status) == TRUE

\* CHECK (status IN ('complete', 'not complete'))
StatusCheck(status) == status \in {Complete, NotComplete}

\* the table without its UNIQUE constraint
UniqueViolationOff(name) == FALSE

\* name TEXT NOT NULL UNIQUE: inserting this name would violate the constraint
UniqueViolation(name) == \E i \in DOMAIN rows : rows[i].name = name

\* the insertion taking the lowest id again instead of a fresh one
InsertRowReusedId(name, description) ==
    Append(rows, [id |-> 1, name |-> name, description |-> description,
                  status |-> NotComplete, created_at |-> clock, updated_at |-> clock])

\* the INSERT with updated_at taken from a clock one second behind
InsertRowStaleUpdate(name, description) ==
    Append(rows, [id |-> nextId, name |-> name, description |-> description,
                  status |-> NotComplete, created_at |-> clock,
                  updated_at |-> clock - 1])

\* INSERT INTO tasks (name, description, status) VALUES (?, ?, 'not complete'):
\* id from AUTOINCREMENT, created_at and updated_at from DEFAULT CURRENT_TIMESTAMP
InsertRow(name, description) ==
    Append(rows, [id |-> nextId, name |-> name, description |-> description,
                  status |-> NotComplete, created_at |-> clock, updated_at |-> clock])

\* the SELECT without its WHERE clause: the first row of the table
SelectFirst(name) == IF Len(rows) > 0 THEN 1 ELSE 0

\* SELECT status FROM tasks WHERE name = ?  (fetchone: the row's index, 0 for no row)
SelectByName(name) ==
    IF \E i \in DOMAIN rows : rows[i].name = name
    THEN CHOOSE i \in DOMAIN rows : rows[i].name = name
    ELSE 0

\* the status read after the UPDATE instead of before it
OldStatusAfterWrite(task) == rows'[task].status

\* old_status = task['status'] of the row fetched by the SELECT
OldStatus(task) == rows[task].status

\* the UPDATE switching the status over instead of storing the given one
UpdateStatusToggled(name, status) ==
    [i \in DOMAIN rows |->
        IF rows[i].name = name
        THEN [rows[i] EXCEPT !.status = IF @ = Complete THEN NotComplete
                                        ELSE Complete,
                             !.updated_at = clock]
        ELSE rows[i]]

\* the UPDATE resetting created_at along with updated_at
UpdateStatusAndCreated(name, status) ==
    [i \in DOMAIN rows |->
        IF rows[i].name = name
        THEN [rows[i] EXCEPT !.status = status, !.updated_at = clock,
                             !.created_at = clock]
        ELSE rows[i]]

\* UPDATE tasks SET status = ?, updated_at = CURRENT_TIMESTAMP WHERE name = ?
UpdateStatus(name, status) ==
    [i \in DOMAIN rows |->
        IF rows[i].name = name
        THEN [rows[i] EXCEPT !.status = status, !.updated_at = clock]
        ELSE rows[i]]

\* SELECT * FROM tasks ORDER BY created_at DESC: the row indices in an order
\* with created_at non-increasing. SQL leaves the order of rows with equal
\* keys undefined, so every such order is a possible result.
Orderings ==
    {p \in [DOMAIN rows -> DOMAIN rows] :
        /\ \A i, j \in DOMAIN rows : i # j => p[i] # p[j]
        /\ \A i, j \in DOMAIN rows :
              i < j => rows[p[i]].created_at >= rows[p[j]].created_at}

(***************************************************************************)
(* TaskManagerTool                                                         *)
(***************************************************************************)
\* the tool's execute run twice for one request
ReturnsTwice(tool, blocks) ==
    executed' = <<[tool |-> tool, result |-> blocks, raised |-> None],
                  [tool |-> tool, result |-> blocks, raised |-> None]>>

\* the tool's execute returns `blocks`
Returns(tool, blocks) ==
    executed' = <<[tool |-> tool, result |-> blocks, raised |-> None]>>

\* the tool's execute ends by an exception that nothing in the tool catches
Raises(tool, cause) ==
    executed' = <<[tool |-> tool, result |-> <<>>, raised |-> cause]>>

StoreUnchanged == UNCHANGED <<rows, nextId>>

\* the log file opened for appending on the way: it is there afterwards
JournalTouched ==
    /\ journal' = [journal EXCEPT !.exists = TRUE]
    /\ UNCHANGED logged

JournalUnchanged == UNCHANGED <<journal, logged>>

\* str(e) of a storage failure other than a constraint violation
StorageCause == "database is locked"
\* str(e) of the IntegrityError raised by the CHECK constraint
CheckCause == "CHECK constraint failed: status IN ('complete', 'not complete')"

\* StorageError without its except clause: the exception leaves execute
StorageErrorUncaught(prefix, cause) == Raises("taskManager", cause)

\* except Exception as e: return [TextContent(type="text", text=f"<prefix>{str(e)}")]
StorageError(prefix, cause) ==
    Returns("taskManager", <<TextContent(<<prefix, cause>>)>>)

SecondsPerMinute == 60

\* the status icons of the report (U+2705 and U+23F3 in the source)
CompleteGlyph == "[check-mark]"
PendingGlyph == "[hourglass]"

\* dt.strftime("%Y-%m-%d %H:%M"): the timestamp to the minute, seconds dropped
FormatDate(t) == IntStr(t \div SecondsPerMinute)

\* FormatTask with the pending icon on every record
FormatTaskOneGlyph(task) ==
    <<PendingGlyph,
      " **", task.name, "**\n",
      "   Description: ",
      (IF Truthy(task.description) THEN task.description ELSE "No description"), "\n",
      "   Status: ", task.status, "\n",
      "   Created: ">> \o FormatDate(task.created_at) \o <<"\n",
      "   ID: ">> \o IntStr(task.id) \o <<"\n">>

\* one record of the listTasks report
FormatTask(task) ==
    <<(IF task.status = Complete THEN CompleteGlyph ELSE PendingGlyph),
      " **", task.name, "**\n",
      "   Description: ",
      (IF Truthy(task.description) THEN task.description ELSE "No description"), "\n",
      "   Status: ", task.status, "\n",
      "   Created: ">> \o FormatDate(task.created_at) \o <<"\n",
      "   ID: ">> \o IntStr(task.id) \o <<"\n">>

_add_task(arguments) ==
    LET task_name == Get(arguments, "taskName")
        description == Get(arguments, "description")
    IN  IF ~Truthy(task_name) \/ ~Truthy(description)
        THEN /\ Returns("taskManager", <<TextContent(
                    <<"Error: taskName and description are required for addTask">>)>>)
             /\ StoreUnchanged
        ELSE \E fault \in BOOLEAN :
        IF fault
        THEN /\ StorageError("Error adding task: ", StorageCause)
             /\ StoreUnchanged
        ELSE IF UniqueViolation(task_name)
        THEN /\ Returns("taskManager", <<TextContent(
                    <<"Error: Task '", task_name, "' already exists">>)>>)
             /\ StoreUnchanged
        ELSE /\ rows' = InsertRow(task_name, description)
             /\ nextId' = nextId + 1
             /\ Returns("taskManager", <<TextContent(
                    <<"Task '", task_name, "' added successfully">>)>>)

_list_tasks ==
    /\ StoreUnchanged
    /\ \E fault \in BOOLEAN :
       IF fault
       THEN StorageError("Error listing tasks: ", StorageCause)
       ELSE IF Len(rows) = 0
       THEN Returns("taskManager", <<TextContent(<<"No tasks found">>)>>)
       ELSE \E p \in Orderings :
               Returns("taskManager", <<TextContent(
                   Join([i \in DOMAIN rows |-> FormatTask(rows[p[i]])], <<"\n">>))>>)

_complete_task(arguments) ==
    LET task_name == Get(arguments, "taskName")
        completion_status == Get(arguments, "completionStatus")
        task == SelectByName(task_name)
    IN  IF ~Truthy(task_name) \/ ~Truthy(completion_status)
        THEN /\ Returns("taskManager", <<TextContent(
                    <<"Error: taskName and completionStatus are required for completeTask">>)>>)
             /\ StoreUnchanged
        ELSE \E fault \in BOOLEAN :
        IF fault
        THEN /\ StorageError("Error updating task: ", StorageCause)
             /\ StoreUnchanged
        ELSE IF task = 0
        THEN /\ Returns("taskManager", <<TextContent(
                    <<"Error: Task '", task_name, "' not found">>)>>)
             /\ StoreUnchanged
        ELSE IF ~StatusCheck(completion_status)
        THEN \* the UPDATE raises IntegrityError, caught by `except Exception`;
             \* the connection's context manager rolls the transaction back
             /\ StorageError("Error updating task: ", CheckCause)
             /\ StoreUnchanged
        ELSE /\ rows' = UpdateStatus(task_name, completion_status)
             /\ UNCHANGED nextId
             /\ Returns("taskManager", <<TextContent(
                    <<"Task '", task_name, "' status changed from '",
                      OldStatus(task), "' to '", completion_status, "'">>)>>)

TaskManagerExecute(arguments) ==
    LET option == Get(arguments, "option")
    IN  /\ JournalUnchanged
        /\ IF option = "addTask" THEN _add_task(arguments)
           ELSE IF option = "listTasks" THEN _list_tasks
           ELSE IF option = "completeTask" THEN _complete_task(arguments)
           ELSE /\ Returns("taskManager",
                       <<TextContent(<<"Error: Invalid option provided">>)>>)
                /\ StoreUnchanged

(***************************************************************************)
(* The journal: WorkLoggingTool and GetWorkLogTool                         *)
(***************************************************************************)
\* str(e) of an OSError raised by open()
IOCause == "Permission denied"

\* datetime.now().strftime("%Y-%m-%d %H:%M:%S")
Timestamp == IntStr(clock)

\* the entry without its timestamp
LogEntryUnstamped(description) == Chars(description) \o <<"\n">>

\* the entry without its line terminator
LogEntryUnterminated(description) ==
    <<"[">> \o Timestamp \o <<"]", " ">> \o Chars(description)

\* f"[{timestamp}] {description}\n"
LogEntry(description) ==
    <<"[">> \o Timestamp \o <<"]", " ">> \o Chars(description) \o <<"\n">>

\* the file opened with mode 'w': what was there is lost
WriteTruncating(content, text) == text

\* open(self.log_file_path, 'a', encoding='utf-8') and f.write(text)
WriteAppending(content, text) == content \o text

IsSpace(c) == c \in {" ", "\n", "\t", "\r"}

\* str.strip(): leading and trailing whitespace removed
RECURSIVE LStrip(_)
LStrip(cs) == IF Len(cs) > 0 /\ IsSpace(cs[1]) THEN LStrip(Tail(cs)) ELSE cs
RECURSIVE RStrip(_)
RStrip(cs) == IF Len(cs) > 0 /\ IsSpace(cs[Len(cs)])
              THEN RStrip(SubSeq(cs, 1, Len(cs) - 1)) ELSE cs
\* lstrip() in place of strip()
StripLeading(cs) == LStrip(cs)

Strip(cs) == RStrip(LStrip(cs))

\* what a file opened in text mode ('r', newline=None) reads as: "\r\n" and a
\* lone "\r" both arrive as "\n"
RECURSIVE ReadText(_)
ReadText(cs) ==
    IF Len(cs) = 0 THEN <<>>
    ELSE IF cs[1] = "\r"
    THEN IF Len(cs) > 1 /\ cs[2] = "\n"
         THEN <<"\n">> \o ReadText(SubSeq(cs, 3, Len(cs)))
         ELSE <<"\n">> \o ReadText(Tail(cs))
    ELSE <<cs[1]>> \o ReadText(Tail(cs))

\* the test made on the description with its blanks stripped first
NoDescriptionStripped(description) ==
    ~Truthy(description) \/ Strip(Chars(description)) = <<>>

\* if not description
NoDescription(description) == ~Truthy(description)

WorkLoggingExecute(arguments) ==
    LET description == GetOr(arguments, "description", "")
    IN  /\ StoreUnchanged
        /\ IF NoDescription(description)
           THEN /\ Returns("logWork",
                       <<TextContent(<<"Error: No work description provided">>)>>)
                /\ JournalUnchanged
           ELSE \E fault \in BOOLEAN :
           IF fault
           THEN /\ Returns("logWork",
                       <<TextContent(<<"Error logging work: ", IOCause>>)>>)
                /\ JournalUnchanged
           ELSE /\ Len(logged) < MaxLog
                /\ journal' = [exists |-> TRUE,
                               content |-> WriteAppending(journal.content,
                                                          LogEntry(description))]
                /\ logged' = Append(logged, [description |-> description, at |-> clock])
                /\ Returns("logWork", <<TextContent(
                       <<"Work logged successfully: ", description, " at ">>
                       \o Timestamp)>>)

GetWorkLogExecute(arguments) ==
    /\ StoreUnchanged
    /\ JournalUnchanged
    /\ \E fault \in BOOLEAN :
       IF fault
       THEN Returns("getWorkLog",
                <<TextContent(<<"Error reading work log: ", IOCause>>)>>)
       ELSE IF ~journal.exists
       THEN Returns("getWorkLog", <<TextContent(
                <<"No work log entries found. The work log file does not exist.">>)>>)
       ELSE IF Strip(ReadText(journal.content)) = <<>>
       THEN Returns("getWorkLog", <<TextContent(<<"Work log is empty.">>)>>)
       ELSE Returns("getWorkLog", <<TextContent(Strip(ReadText(journal.content)))>>)

(***************************************************************************)
(* AnalyzeFileTool                                                         *)
(***************************************************************************)
\* Path(__file__).parent.parent.parent
ProjectRoot == "/srv"
JournalFile == "work_log.txt"

\* os.path.isabs(file_path) on POSIX: the path starts with a slash
isabs(cs) == Len(cs) > 0 /\ cs[1] = "/"

\* the root pathlib finds at the head of a POSIX path: "//" for exactly two
\* leading slashes, "/" for one or for three and more, none otherwise
SplitRoot(cs) ==
    IF ~isabs(cs) THEN <<>>
    ELSE IF Len(cs) >= 2 /\ cs[2] = "/" /\ ~(Len(cs) >= 3 /\ cs[3] = "/")
    THEN <<"/", "/">>
    ELSE <<"/">>

\* cs.split("/")
RECURSIVE Split(_)
Split(cs) ==
    IF \E i \in DOMAIN cs : cs[i] = "/"
    THEN LET i == CHOOSE k \in DOMAIN cs :
                     cs[k] = "/" /\ \A j \in 1..(k - 1) : cs[j] # "/"
         IN  <<SubSeq(cs, 1, i - 1)>> \o Split(SubSeq(cs, i + 1, Len(cs)))
    ELSE <<cs>>

\* the parts pathlib keeps: empty segments and "." segments are dropped
Parts(cs) == SelectSeq(Split(cs), LAMBDA seg : seg # <<>> /\ seg # <<".">>)

\* str() of a path with this root and these parts
Render(root, parts) ==
    IF root = <<>> /\ parts = <<>> THEN <<".">>
    ELSE root \o Join(parts, <<"/">>)

\* a path taken over character by character
PathKept(cs) == cs

\* str(Path(file_path))
Path(cs) == Render(SplitRoot(cs), Parts(cs))

\* str(base / file_path)
JoinPath(base, cs) ==
    IF SplitRoot(cs) # <<>> THEN Path(cs)
    ELSE Render(SplitRoot(base), Parts(base) \o Parts(cs))

\* resolve_file_path of utils/path_utils.py, with PROJECT_ROOT of settings.py
resolve_file_path(cs) ==
    IF isabs(cs) THEN Path(cs) ELSE JoinPath(Chars(ProjectRoot), cs)

\* the resolution written out in AnalyzeFileTool.execute, with its own
\* Path(__file__).parent.parent.parent, which is the same directory
InlineResolve(cs) ==
    IF ~isabs(cs) THEN JoinPath(Chars(ProjectRoot), cs) ELSE Path(cs)

IsAbs(path) == isabs(Chars(path))

\* project_root / file_path for a relative path, Path(file_path) otherwise
ResolvePath(path) == InlineResolve(Chars(path))

\* The files on disk besides the journal, by absolute path.
Disk ==
    (Chars(ProjectRoot) \o <<"/">> \o Chars("a.py")) :>
        <<"x", "\n", "\"", "T", "O", "D", "O", "\"", "\n", "y">>
    @@ (Chars(ProjectRoot) \o <<"/">> \o Chars("e.py")) :> <<>>
    @@ (Chars(ProjectRoot) \o <<"/">> \o Chars("n.py")) :> <<"\n", "\n">>
    @@ Chars("/b.py") :> <<"t", "o", "d", "o", "\n">>
    @@ Chars("/c.py") :> <<"T", "O", "\r", "\n", "D", "O", "\r", "t", "O", "D", "O">>

\* every path taken for an existing file
FileExistsAlways(path) == TRUE

FileExists(path) ==
    \/ path \in DOMAIN Disk
    \/ path = ResolvePath(JournalFile) /\ journal.exists

\* what open(file_path, 'r', encoding='utf-8') reads
FileContent(path) ==
    ReadText(IF path \in DOMAIN Disk THEN Disk[path] ELSE journal.content)

\* the terminated lines only
LineCountTerminated(cs) == Cardinality({i \in DOMAIN cs : cs[i] = "\n"})

\* sum(1 for line in f): the terminated lines, plus a final unterminated fragment
RECURSIVE LineCount(_)
LineCount(cs) ==
    IF Len(cs) = 0 THEN 0
    ELSE IF \E i \in DOMAIN cs : cs[i] = "\n"
    THEN LET i == CHOOSE k \in DOMAIN cs :
                     cs[k] = "\n" /\ \A j \in 1..(k - 1) : cs[j] # "\n"
         IN  1 + LineCount(SubSeq(cs, i + 1, Len(cs)))
    ELSE 1

\* the search made without regard to letter case
HasTodoAnyCase(cs) ==
    \E i \in 1..(Len(cs) - 3) :
        \A k \in 0..3 : cs[i + k] \in {<<"T", "O", "D", "O">>[k + 1],
                                        <<"t", "o", "d", "o">>[k + 1]}

\* 'TODO' in line, for some line of the file
HasTodo(cs) ==
    \E i \in 1..(Len(cs) - 3) : SubSeq(cs, i, i + 3) = <<"T", "O", "D", "O">>

AnalyzeFileExecute(arguments) ==
    LET file_path == GetOr(arguments, "file", "")
        options == GetOr(arguments, "options", "")
        path == ResolvePath(file_path)
    IN  /\ StoreUnchanged
        /\ JournalUnchanged
        /\ IF ~Truthy(file_path)
           THEN Returns("analyzeFile",
                    <<TextContent(<<"Error: No file path provided">>)>>)
           ELSE IF options \notin {"lineCount", "hasTodos"}
           THEN Returns("analyzeFile", <<TextContent(
                    <<"Error: Unknown analysis option '", options, "'">>)>>)
           ELSE IF ~FileExists(path)
           THEN Returns("analyzeFile", <<TextContent(
                    <<"Error: File '">> \o path \o <<"' not found">>)>>)
           ELSE \E fault \in BOOLEAN :
           IF fault
           THEN Returns("analyzeFile",
                    <<TextContent(<<"Error reading file: ", IOCause>>)>>)
           ELSE IF options = "lineCount"
           THEN Returns("analyzeFile", <<TextContent(
                    <<"File '">> \o path \o <<"' has ">>
                    \o IntStr(LineCount(FileContent(path))) \o <<" lines">>)>>)
           ELSE IF HasTodo(FileContent(path))
           THEN Returns("analyzeFile", <<TextContent(
                    <<"File '">> \o path \o <<"' has a TODO comment">>)>>)
           ELSE Returns("analyzeFile", <<TextContent(
                    <<"File '">> \o path \o <<"' does not have a TODO comment">>)>>)

(***************************************************************************)
(* A tool other than the four default ones (any BaseTool subclass)         *)
(***************************************************************************)
StubExecute(tool, arguments) ==
    /\ StoreUnchanged
    /\ JournalUnchanged
    /\ Returns(tool.name, <<TextContent(<<"stub">>), TextContent(<<"second block">>)>>)

(***************************************************************************)
(* ToolRegistry                                                            *)
(***************************************************************************)
\* the tools _register_default_tools constructs, in its order
DefaultTools ==
    << [name |-> "analyzeFile", kind |-> "AnalyzeFileTool"],
       [name |-> "logWork",     kind |-> "WorkLoggingTool"],
       [name |-> "getWorkLog",  kind |-> "GetWorkLogTool"],
       [name |-> "taskManager", kind |-> "TaskManagerTool"] >>

\* a registry that keeps the tool first registered under a name
RegisterIntoFirstWins(registry, tool) ==
    IF \E i \in DOMAIN registry : registry[i].name = tool.name
    THEN registry
    ELSE Append(registry, tool)

\* self._tools[tool.tool_definition.name] = tool: a dict keeps a key's first
\* position when its value is replaced, and appends a new key
RegisterInto(registry, tool) ==
    IF \E i \in DOMAIN registry : registry[i].name = tool.name
    THEN [i \in DOMAIN registry |->
             IF registry[i].name = tool.name THEN tool ELSE registry[i]]
    ELSE Append(registry, tool)

RECURSIVE RegisterAll(_, _)
RegisterAll(registry, ts) ==
    IF Len(ts) = 0 THEN registry
    ELSE RegisterAll(RegisterInto(registry, ts[1]), Tail(ts))

\* name in self._tools
Registered(name) == \E i \in DOMAIN tools : tools[i].name = name

\* self._tools[name]
Lookup(name) == tools[CHOOSE i \in DOMAIN tools : tools[i].name = name]

\* the "required" list of the tool's inputSchema
Required(kind) ==
    CASE kind = "AnalyzeFileTool" -> <<"file", "options">>
      [] kind = "WorkLoggingTool" -> <<"description">>
      [] kind = "TaskManagerTool" -> <<"option">>
      [] OTHER -> <<>>

\* tool.tool_definition
tool_definition(tool) == [name |-> tool.name, required |-> Required(tool.kind)]

\* the definitions listed last registered first
get_tool_definitions_reversed ==
    [i \in DOMAIN tools |-> tool_definition(tools[Len(tools) + 1 - i])]

\* [tool.tool_definition for tool in self._tools.values()]
get_tool_definitions == [i \in DOMAIN tools |-> tool_definition(tools[i])]

\* the tool's execute(arguments)
ToolExecute(tool, arguments) ==
    CASE tool.kind = "AnalyzeFileTool" -> AnalyzeFileExecute(arguments)
      [] tool.kind = "WorkLoggingTool" -> WorkLoggingExecute(arguments)
      [] tool.kind = "GetWorkLogTool"  -> GetWorkLogExecute(arguments)
      [] tool.kind = "TaskManagerTool" -> TaskManagerExecute(arguments)
      [] OTHER -> StubExecute(tool, arguments)

\* raise ValueError(f"Unknown tool: {name}")
UnknownTool(name) ==
    [kind |-> "raise", error |-> "ValueError", text |-> <<"Unknown tool: ", name>>]

\* Returned keeping only the first block of the tool's result
ReturnedFirstBlock(blocks) == [kind |-> "return", content |-> SubSeq(blocks, 1, 1)]

\* return await self._tools[name].execute(arguments)
Returned(blocks) == [kind |-> "return", content |-> blocks]

\* an exception of the awaited execute propagates to the caller
Propagated(cause) == [kind |-> "raise", error |-> "Exception", text |-> <<cause>>]

register_tool(tool) ==
    /\ tools' = RegisterInto(tools, tool)
    /\ UNCHANGED <<rows, nextId, journal, logged, clock, request, executed, response>>

execute_tool(name, arguments) ==
    /\ request' = [name |-> name, arguments |-> arguments]
    /\ IF ~Registered(name)
       THEN /\ response' = UnknownTool(name)
            /\ executed' = <<>>
            /\ StoreUnchanged
            /\ JournalUnchanged
       ELSE /\ ToolExecute(Lookup(name), arguments)
            /\ response' = IF executed'[1].raised = None
                           THEN Returned(executed'[1].result)
                           ELSE Propagated(executed'[1].raised)
    /\ UNCHANGED <<tools, clock>>

\* one second passes
Tick ==
    /\ clock < MaxClock
    /\ clock' = clock + 1
    /\ UNCHANGED <<tools, rows, nextId, journal, logged, request, executed, response>>

(***************************************************************************)
(* Requests                                                                *)
(***************************************************************************)
NoArguments == [k \in {} |-> ""]

\* the argument maps that leave `key` out or give it one of `values`
Optional(key, values) == {NoArguments} \cup {key :> v : v \in values}

TaskNames == {"t1", "t2"}
Descriptions == {"d1", "d2"}

LedgerArguments ==
    {("option" :> "addTask") @@ n @@ d :
        n \in Optional("taskName", TaskNames \cup {""}),
        d \in Optional("description", Descriptions \cup {""})}
    \cup {("option" :> "completeTask") @@ n @@ c :
        n \in Optional("taskName", TaskNames \cup {""}),
        c \in Optional("completionStatus", {Complete, NotComplete, "done", ""})}
    \cup {("option" :> "listTasks") @@ n : n \in Optional("taskName", {"t1"})}
    \cup {o @@ n : o \in Optional("option", {"bogus"}),
                   n \in Optional("taskName", {"t1"})}

JournalArguments == Optional("description", {None, "", "w", " ", "a\nb", "c\rd"})

FileArguments ==
    {f @@ o : f \in Optional("file", {None, "", "a.py", "e.py", "n.py", "/b.py",
                                       "/c.py", "no.py", JournalFile}),
              o \in Optional("options", {"lineCount", "hasTodos", "bogus"})}

ToolNames == {"analyzeFile", "logWork", "getWorkLog", "taskManager", "echo", "nope"}

ArgumentsFor(name) ==
    CASE name = "taskManager" -> LedgerArguments
      [] name = "logWork" -> JournalArguments
      [] name = "analyzeFile" -> FileArguments
      [] name = "getWorkLog" -> Optional("description", {"w"})
      [] OTHER -> {NoArguments}

\* the tools a caller may register after construction
Registrable ==
    {DefaultTools[i] : i \in DOMAIN DefaultTools}
    \cup {[name |-> "echo", kind |-> "StubTool"],
          [name |-> "taskManager", kind |-> "StubTool"]}

(***************************************************************************)
(* TaskManagerTool statement by statement, for server processes that share *)
(* tasks.db. Within one process execute() has no await and runs as a       *)
(* whole; between processes the SQLite statements of two calls interleave. *)
(* Each call opens its own connection; the sqlite3 module issues BEGIN     *)
(* before an INSERT or UPDATE only, so the SELECT of _complete_task runs   *)
(* outside the transaction of its UPDATE. Rows written by a transaction    *)
(* reach `rows` when it commits.                                           *)
(***************************************************************************)
Procs == {1, 2}

Idle ==
    [pc |-> "idle", arguments |-> NoArguments, old |-> None, result |-> <<>>,
     raced |-> FALSE]

RaceArguments ==
    {a \in LedgerArguments :
        /\ Get(a, "option") \in {"addTask", "completeTask"}
        /\ Get(a, "taskName") # ""
        /\ Get(a, "description") \in {None, "d1"}
        /\ Get(a, "completionStatus") \in {None, Complete, NotComplete}}

\* the connection's call ends with this report
Finish(p, blocks) ==
    conns' = [conns EXCEPT ![p].pc = "done", ![p].result = blocks]

\* the connection's call moves on to its next statement
Goto(p, pc) == conns' = [conns EXCEPT ![p].pc = pc]

\* a database without a write lock
WriteLockedOff(p) == FALSE

\* another connection is inside a write transaction (it holds the RESERVED lock)
WriteLocked(p) == \E q \in Procs \ {p} : conns[q].pc = "commit"

\* process q is inside an addTask of task_name, which is not stored
Adding(q, task_name) ==
    /\ conns[q].pc \in {"insert", "commit"}
    /\ Get(conns[q].arguments, "taskName") = task_name
    /\ ~UniqueViolation(task_name)

\* execute() up to the first SQL statement: the option and the argument
\* checks. `raced` is not part of the program: it marks the two calls when an
\* addTask begins while another process is inside an addTask of the same
\* name and the store does not hold that name.
begin(p, arguments) ==
    LET option == Get(arguments, "option")
        task_name == Get(arguments, "taskName")
        Start(pc, blocks, raced) ==
            [q \in Procs |->
                IF q = p
                THEN [pc |-> pc, arguments |-> arguments, old |-> None,
                      result |-> blocks, raced |-> raced]
                ELSE [conns[q] EXCEPT !.raced = IF raced THEN TRUE ELSE @]]
    IN  /\ conns[p].pc \in {"idle", "done"}
        /\ StoreUnchanged
        /\ IF option = "addTask"
           THEN IF ~Truthy(task_name) \/ ~Truthy(Get(arguments, "description"))
                THEN conns' = Start("done", <<TextContent(
                        <<"Error: taskName and description are required for addTask">>)>>,
                        FALSE)
                ELSE conns' = Start("insert", <<>>,
                        \E q \in Procs \ {p} : Adding(q, task_name))
           ELSE IF ~Truthy(task_name) \/ ~Truthy(Get(arguments, "completionStatus"))
                THEN conns' = Start("done", <<TextContent(
                        <<"Error: taskName and completionStatus are required for completeTask">>)>>,
                        FALSE)
                ELSE conns' = Start("select", <<>>, FALSE)

\* cursor = conn.execute("SELECT status ..."); task = cursor.fetchone();
\* old_status = task['status']
select(p) ==
    LET task_name == Get(conns[p].arguments, "taskName")
        task == SelectByName(task_name)
    IN  /\ conns[p].pc = "select"
        /\ StoreUnchanged
        /\ IF task = 0
           THEN Finish(p, <<TextContent(<<"Error: Task '", task_name, "' not found">>)>>)
           ELSE conns' = [conns EXCEPT ![p].pc = "update", ![p].old = OldStatus(task)]

\* conn.execute("INSERT ..."): BEGIN, then the insert with its UNIQUE check
insert(p) ==
    LET task_name == Get(conns[p].arguments, "taskName")
    IN  /\ conns[p].pc = "insert"
        /\ ~WriteLocked(p)
        /\ StoreUnchanged
        /\ IF UniqueViolation(task_name)
           THEN Finish(p, <<TextContent(
                    <<"Error: Task '", task_name, "' already exists">>)>>)
           ELSE Goto(p, "commit")

\* conn.execute("UPDATE ..."): BEGIN, then the update with its CHECK
update(p) ==
    /\ conns[p].pc = "update"
    /\ ~WriteLocked(p)
    /\ StoreUnchanged
    /\ IF ~StatusCheck(Get(conns[p].arguments, "completionStatus"))
       THEN Finish(p, <<TextContent(<<"Error updating task: ", CheckCause>>)>>)
       ELSE Goto(p, "commit")

\* the INSERT or UPDATE finds the database locked by another connection
\* until its busy timeout runs out
busy(p) ==
    /\ conns[p].pc \in {"insert", "update"}
    /\ WriteLocked(p)
    /\ StoreUnchanged
    /\ Finish(p, <<TextContent(
           <<(IF conns[p].pc = "insert" THEN "Error adding task: "
              ELSE "Error updating task: "), StorageCause>>)>>)

\* conn.commit() and the return that follows it
commit(p) ==
    LET arguments == conns[p].arguments
        task_name == Get(arguments, "taskName")
    IN  /\ conns[p].pc = "commit"
        /\ IF Get(arguments, "option") = "addTask"
           THEN /\ rows' = InsertRow(task_name, Get(arguments, "description"))
                /\ nextId' = nextId + 1
                /\ Finish(p, <<TextContent(
                       <<"Task '", task_name, "' added successfully">>)>>)
           ELSE /\ rows' = UpdateStatus(task_name, Get(arguments, "completionStatus"))
                /\ UNCHANGED nextId
                /\ Finish(p, <<TextContent(
                       <<"Task '", task_name, "' status changed from '",
                         conns[p].old, "' to '",
                         Get(arguments, "completionStatus"), "'">>)>>)

(***************************************************************************)
(* Two server processes on one work_log.txt, statement by statement        *)
(***************************************************************************)
\* a call of logWork is between its open() and the end of its with block
Writing(q) == conns[q].pc \in {"open", "write", "close"}

\* a write(2) at the position the file had when it was opened
PositionedWrite(content, offset, bytes) ==
    SubSeq(content, 1, offset) \o bytes
    \o SubSeq(content, offset + Len(bytes) + 1, Len(content))

\* the write(2) of a file opened with mode 'a' (O_APPEND): the position is
\* moved to the end of the file and the bytes are written there in one step
AppendWrite(content, offset, bytes) == content \o bytes

\* execute() up to the with statement: the description check, the timestamp
\* and the entry. `raced` is not part of the program: it marks the two calls
\* when one begins while the other process is inside its own.
log_begin(p, arguments) ==
    LET description == GetOr(arguments, "description", "")
        raced == \E q \in Procs \ {p} : Writing(q)
        Start(pc, entry, blocks) ==
            [q \in Procs |->
                IF q = p
                THEN [pc |-> pc, arguments |-> arguments, timestamp |-> clock,
                      log_entry |-> entry, offset |-> 0, buffer |-> <<>>,
                      result |-> blocks, raced |-> raced]
                ELSE [conns[q] EXCEPT !.raced = IF raced THEN TRUE ELSE @]]
    IN  /\ conns[p].pc \in {"idle", "done"}
        /\ Len(logged) + Cardinality({q \in Procs : Writing(q)}) < MaxLog
        /\ JournalUnchanged
        /\ IF NoDescription(description)
           THEN conns' = Start("done", <<>>,
                    <<TextContent(<<"Error: No work description provided">>)>>)
           ELSE conns' = Start("open", LogEntry(description), <<>>)

\* open(self.log_file_path, 'a', encoding='utf-8'): the file is made if it
\* is not there, or the open fails and the handler reports it
log_open(p) ==
    /\ conns[p].pc = "open"
    /\ UNCHANGED logged
    /\ \E fault \in BOOLEAN :
          IF fault
          THEN /\ UNCHANGED journal
               /\ Finish(p, <<TextContent(<<"Error logging work: ", IOCause>>)>>)
          ELSE /\ journal' = [journal EXCEPT !.exists = TRUE]
               /\ conns' = [conns EXCEPT ![p].pc = "write",
                                          ![p].offset = Len(journal.content)]

\* f.write(log_entry): the entry goes into the buffer of the file object
log_write(p) ==
    /\ conns[p].pc = "write"
    /\ JournalUnchanged
    /\ conns' = [conns EXCEPT ![p].pc = "close", ![p].buffer = conns[p].log_entry]

\* the end of the with block: close() flushes the buffer with one write(2),
\* and the call returns its report
log_close(p) ==
    LET description == Get(conns[p].arguments, "description")
    IN  /\ conns[p].pc = "close"
        /\ journal' = [journal EXCEPT
                          !.content = AppendWrite(@, conns[p].offset, conns[p].buffer)]
        /\ logged' = Append(logged, [description |-> description,
                                     at |-> conns[p].timestamp])
        /\ Finish(p, <<TextContent(
               <<"Work logged successfully: ", description, " at ">>
               \o IntStr(conns[p].timestamp))>>)

(***************************************************************************)
(* Specifications                                                          *)
(***************************************************************************)
NoRequest == [name |-> None, arguments |-> NoArguments]
NoResponse == [kind |-> "none"]

Init ==
    /\ tools = RegisterAll(<<>>, DefaultTools)
    /\ rows = <<>>
    /\ nextId = 1
    /\ journal = [exists |-> FALSE, content |-> <<>>]
    /\ logged = <<>>
    /\ clock = 0
    /\ calls = 0
    /\ request = NoRequest
    /\ executed = <<>>
    /\ response = NoResponse
    /\ conns = [p \in Procs |-> Idle]

\* one more registry call, within the budget
Call == calls < MaxCalls /\ calls' = calls + 1

Register ==
    /\ Call
    /\ UNCHANGED conns
    /\ \E tool \in Registrable : register_tool(tool)

Execute ==
    /\ Call
    /\ UNCHANGED conns
    /\ \E name \in ToolNames : \E arguments \in ArgumentsFor(name) :
          execute_tool(name, arguments)

Pass == Tick /\ UNCHANGED <<calls, conns>>

ExecuteTaskManager ==
    /\ UNCHANGED <<calls, conns>>
    /\ \E arguments \in LedgerArguments : execute_tool("taskManager", arguments)

\* the whole server
Next == Register \/ Execute \/ Pass

Spec == Init /\ [][Next]_vars

\* the task ledger alone, any number of calls
NextLedger == Pass \/ ExecuteTaskManager

SpecLedger == Init /\ [][NextLedger]_vars

\* what a statement of one server process leaves alone
ServerUnchanged ==
    UNCHANGED <<tools, journal, logged, clock, calls, request, executed, response>>

Begin ==
    /\ ServerUnchanged
    /\ \E p \in Procs : \E arguments \in RaceArguments : begin(p, arguments)
Select == ServerUnchanged /\ \E p \in Procs : select(p)
Insert == ServerUnchanged /\ \E p \in Procs : insert(p)
Update == ServerUnchanged /\ \E p \in Procs : update(p)
Busy == ServerUnchanged /\ \E p \in Procs : busy(p)
Commit == ServerUnchanged /\ \E p \in Procs : commit(p)

ExecuteLogWork ==
    /\ UNCHANGED <<calls, conns>>
    /\ \E arguments \in JournalArguments : execute_tool("logWork", arguments)

ExecuteGetWorkLog ==
    /\ UNCHANGED <<calls, conns>>
    /\ \E arguments \in ArgumentsFor("getWorkLog") :
          execute_tool("getWorkLog", arguments)

ExecuteAnalyzeFile ==
    /\ UNCHANGED <<calls, conns>>
    /\ \E arguments \in FileArguments : execute_tool("analyzeFile", arguments)

\* the journal and the file analyser, any number of calls
NextFiles == Pass \/ ExecuteLogWork \/ ExecuteGetWorkLog \/ ExecuteAnalyzeFile

SpecFiles == Init /\ [][NextFiles]_vars

\* work_log.txt as the server may find it when it starts: absent, empty,
\* blank, with blank space around its text, with a CR LF line end, or holding
\* the very sentence of one of getWorkLog's own reports
InitialJournals ==
    {[exists |-> FALSE, content |-> <<>>]}
    \cup {[exists |-> TRUE, content |-> content] :
            content \in {<<>>,
                         <<" ", "\n", "\t">>,
                         <<"\n", "x", " ", "\n", "y", " ", "\n">>,
                         <<"x", "\r", "\n", "y">>,
                         <<"Work log is empty.">>,
                         <<"No work log entries found. The work log file does not exist.">>}}

InitLog ==
    /\ tools = RegisterAll(<<>>, DefaultTools)
    /\ rows = <<>>
    /\ nextId = 1
    /\ journal \in InitialJournals
    /\ logged = <<>>
    /\ clock = 0
    /\ calls = 0
    /\ request = NoRequest
    /\ executed = <<>>
    /\ response = NoResponse
    /\ conns = [p \in Procs |-> Idle]

\* the journal tools on a journal that may have been there before
NextLog == Pass \/ ExecuteLogWork \/ ExecuteGetWorkLog

SpecLog == InitLog /\ [][NextLog]_vars

\* two server processes on one tasks.db, any number of calls each
NextRace == Begin \/ Select \/ Insert \/ Update \/ Busy \/ Commit

SpecRace == Init /\ [][NextRace]_vars

\* the logWork requests of the two processes
AppendArguments ==
    {a \in JournalArguments : Get(a, "description") \in {None, "w", " ", "a\nb"}}

\* what a statement of logWork in one server process leaves alone
LedgerUnchanged ==
    UNCHANGED <<tools, rows, nextId, clock, calls, request, executed, response>>

LogBegin ==
    /\ LedgerUnchanged
    /\ \E p \in Procs : \E arguments \in AppendArguments : log_begin(p, arguments)
LogOpen == LedgerUnchanged /\ \E p \in Procs : log_open(p)
LogWrite == LedgerUnchanged /\ \E p \in Procs : log_write(p)
LogClose == LedgerUnchanged /\ \E p \in Procs : log_close(p)

\* two server processes on one work_log.txt, any number of calls each
NextAppend == Pass \/ LogBegin \/ LogOpen \/ LogWrite \/ LogClose

SpecAppend == Init /\ [][NextAppend]_vars

\* the path strings tried: slashes, dots and a name character
PathChars == {"/", ".", "a"}

PathStrings ==
    UNION {[1..n -> PathChars] : n \in 0..MaxPath}

\* one call of resolve_file_path(file_path); nothing of the server is touched
Resolve ==
    \E file_path \in PathStrings :
        /\ request' = [name |-> "resolve_file_path",
                       arguments |-> [file_path |-> file_path]]
        /\ response' = [kind |-> "return",
                        content |-> resolve_file_path(file_path)]
        /\ UNCHANGED <<tools, rows, nextId, journal, logged, clock, calls,
                       executed, conns>>

NextPaths == Resolve

SpecPaths == Init /\ [][NextPaths]_vars

(***************************************************************************)
(* Properties                                                              *)
(***************************************************************************)
\* the step is an execute_tool call, described by request'
ExecuteStep ==
    /\ request'.name \in ToolNames
    /\ execute_tool(request'.name, request'.arguments)

\* the step is an execute_tool call routed to the task manager
LedgerStep ==
    /\ request'.name = "taskManager"
    /\ execute_tool("taskManager", request'.arguments)

IsRegistered(name) == name \in {tools[i].name : i \in DOMAIN tools}

\* `name` is registered and bound to the tool that construction bound it to
IsDefaultTool(name) ==
    \E i \in DOMAIN tools : \E j \in DOMAIN DefaultTools :
        tools[i].name = name /\ tools[i] = DefaultTools[j]

OneBlock(text) == [kind |-> "return", content |-> <<[type |-> "text", text |-> text]>>]

\* C1: execute_tool of a name that is not registered fails with an
\* unknown-tool error carrying the name and runs no tool (the store and the
\* journal stay as they were); execute_tool of a registered name runs that
\* one tool and returns the list it returned, unmodified.
C1_Dispatch ==
    [][ExecuteStep =>
        LET name == request'.name
        IN  IF ~IsRegistered(name)
            THEN /\ response' = [kind |-> "raise", error |-> "ValueError",
                                 text |-> <<"Unknown tool: ", name>>]
                 /\ executed' = <<>>
                 /\ UNCHANGED <<rows, nextId, journal, tools>>
            ELSE /\ Len(executed') = 1
                 /\ executed'[1].tool = name
                 /\ response' = [kind |-> "return", content |-> executed'[1].result]
    ]_vars

\* an unknown name was refused after the task manager had stored a task
C1_Witness ==
    /\ request.name = "nope"
    /\ response.kind = "raise"
    /\ executed = <<>>
    /\ Len(rows) = 1

\* C2: a call routed to one of the four default tools returns normally with
\* exactly one text block, whatever the arguments and whether or not the
\* file or the database fails; only an unregistered name makes the call raise.
C2_NeverRaises ==
    [][ExecuteStep =>
        LET name == request'.name
        IN  /\ response'.kind = "raise" => ~IsRegistered(name)
            /\ IsDefaultTool(name) =>
                  /\ response'.kind = "return"
                  /\ Len(response'.content) = 1
                  /\ response'.content[1].type = "text"
    ]_vars

\* listTasks met a database failure and reported it as a block
C2_Witness ==
    /\ request.name = "taskManager"
    /\ response = OneBlock(<<"Error listing tasks: ", StorageCause>>)

\* the arguments of a request
OptionOf(req) == Get(req.arguments, "option")
TaskNameOf(req) == Get(req.arguments, "taskName")
DescriptionOf(req) == Get(req.arguments, "description")
StatusOf(req) == Get(req.arguments, "completionStatus")

Present(v) == v \notin {None, ""}
StoredNames == {rows[i].name : i \in DOMAIN rows}
ValidStatuses == {"complete", "not complete"}

\* the report of a storage call that failed for another reason than a constraint
StorageFailureReports ==
    {OneBlock(<<prefix, StorageCause>>) :
        prefix \in {"Error adding task: ", "Error listing tasks: ",
                    "Error updating task: "}}

\* C3: the store holds at most one row per task name; an addTask whose
\* taskName is already stored leaves the store as it was and reports
\* "Error: Task '<name>' already exists" (or, when the storage call itself
\* fails, that failure).
C3_UniqueNames ==
    /\ [](\A i, j \in DOMAIN rows : rows[i].name = rows[j].name => i = j)
    /\ [][(/\ OptionOf(request') = "addTask"
           /\ Present(DescriptionOf(request'))
           /\ TaskNameOf(request') \in StoredNames
           /\ LedgerStep)
          => /\ UNCHANGED <<rows, nextId>>
             /\ response' \in
                  {OneBlock(<<"Error: Task '", TaskNameOf(request'),
                              "' already exists">>)}
                  \cup StorageFailureReports
       ]_vars

\* a second addTask of t1, with another description, was refused
C3_Witness ==
    /\ request.name = "taskManager"
    /\ OptionOf(request) = "addTask"
    /\ DescriptionOf(request) = "d2"
    /\ response = OneBlock(<<"Error: Task '", "t1", "' already exists">>)
    /\ \E i \in DOMAIN rows : rows[i].name = "t1" /\ rows[i].description = "d1"

\* C4: a successful completeTask of a stored task to a valid status s reports
\* "status changed from '<old>' to '<s>'" with <old> the status stored just
\* before the call, and stores s; a new task starts 'not complete', and a
\* stored status changes only by a successful completeTask of that task.
C4_StatusTransition ==
    [][/\ \A i \in DOMAIN rows :
                (/\ OptionOf(request') = "completeTask"
                 /\ TaskNameOf(request') = rows[i].name
                 /\ StatusOf(request') \in ValidStatuses
                 /\ response' \notin StorageFailureReports
                 /\ LedgerStep)
                => /\ response' = OneBlock(
                          <<"Task '", rows[i].name, "' status changed from '",
                            rows[i].status, "' to '", StatusOf(request'), "'">>)
                   /\ rows'[i].status = StatusOf(request')
       /\ \A i \in DOMAIN rows' : i \notin DOMAIN rows => rows'[i].status = "not complete"
       /\ \A i \in DOMAIN rows :
             rows'[i].status # rows[i].status
             => /\ LedgerStep
                /\ OptionOf(request') = "completeTask"
                /\ TaskNameOf(request') = rows[i].name
                /\ StatusOf(request') = rows'[i].status
    ]_vars

\* t1 was completed and then reverted
C4_Witness ==
    /\ response = OneBlock(<<"Task '", "t1", "' status changed from '",
                             "complete", "' to '", "not complete", "'">>)
    /\ \E i \in DOMAIN rows : rows[i].name = "t1" /\ rows[i].status = "not complete"

\* C5: every stored status is 'complete' or 'not complete'; a completeTask
\* of a stored task with any other non-empty completionStatus is rejected
\* with an error block and leaves the store as it was.
C5_StatusDomain ==
    /\ [](\A i \in DOMAIN rows : rows[i].status \in ValidStatuses)
    /\ [][(/\ OptionOf(request') = "completeTask"
           /\ TaskNameOf(request') \in StoredNames
           /\ Present(StatusOf(request'))
           /\ StatusOf(request') \notin ValidStatuses
           /\ LedgerStep)
          => /\ UNCHANGED <<rows, nextId>>
             /\ response' \in {OneBlock(<<"Error updating task: ", cause>>) :
                                  cause \in {CheckCause, StorageCause}}
       ]_vars

\* completeTask of the stored task t1 to 'done' was rejected by the CHECK constraint
C5_Witness ==
    /\ OptionOf(request) = "completeTask"
    /\ TaskNameOf(request) = "t1"
    /\ StatusOf(request) = "done"
    /\ response = OneBlock(<<"Error updating task: ", CheckCause>>)
    /\ "t1" \in StoredNames

\* C6: a completeTask whose taskName names no stored task reports
\* "Error: Task '<name>' not found" (or, when the storage call itself fails,
\* that failure) and leaves every row as it was, creating none.
C6_NotFound ==
    [][(/\ OptionOf(request') = "completeTask"
        /\ Present(TaskNameOf(request'))
        /\ Present(StatusOf(request'))
        /\ TaskNameOf(request') \notin StoredNames
        /\ LedgerStep)
       => /\ UNCHANGED <<rows, nextId>>
          /\ response' \in
               {OneBlock(<<"Error: Task '", TaskNameOf(request'), "' not found">>)}
               \cup StorageFailureReports
    ]_vars

\* completeTask of t2 was refused while only t1 was stored
C6_Witness ==
    /\ OptionOf(request) = "completeTask"
    /\ response = OneBlock(<<"Error: Task '", "t2", "' not found">>)
    /\ StoredNames = {"t1"}

\* C7: a taskManager call that fails argument validation returns its fixed
\* error block and leaves the store as it was: addTask without a non-empty
\* taskName and description, completeTask without a non-empty taskName and
\* completionStatus, and any call whose option is none of the three.
C7_Validation ==
    [][/\ (/\ OptionOf(request') = "addTask"
            /\ ~(Present(TaskNameOf(request')) /\ Present(DescriptionOf(request')))
            /\ LedgerStep)
           => /\ UNCHANGED <<rows, nextId>>
              /\ response' = OneBlock(
                    <<"Error: taskName and description are required for addTask">>)
       /\ (/\ OptionOf(request') = "completeTask"
            /\ ~(Present(TaskNameOf(request')) /\ Present(StatusOf(request')))
            /\ LedgerStep)
           => /\ UNCHANGED <<rows, nextId>>
              /\ response' = OneBlock(
                    <<"Error: taskName and completionStatus are required for completeTask">>)
       /\ (/\ OptionOf(request') \notin {"addTask", "listTasks", "completeTask"}
            /\ LedgerStep)
           => /\ UNCHANGED <<rows, nextId>>
              /\ response' = OneBlock(<<"Error: Invalid option provided">>)
    ]_vars

\* an addTask with an empty taskName was refused while a task was stored
C7_Witness ==
    /\ OptionOf(request) = "addTask"
    /\ TaskNameOf(request) = ""
    /\ DescriptionOf(request) = "d1"
    /\ response = OneBlock(<<"Error: taskName and description are required for addTask">>)
    /\ Len(rows) = 1

\* the request is a listTasks call and the response is its report
ListReported ==
    /\ request.name = "taskManager"
    /\ OptionOf(request) = "listTasks"
    /\ response \notin StorageFailureReports

\* where the record of the task `name` starts in a report
RecordPosition(text, name) ==
    CHOOSE k \in DOMAIN text : k > 1 /\ text[k - 1] = " **" /\ text[k] = name

\* C8: listTasks reports the tasks most recent first: of two stored tasks,
\* the one added later (the one further down the table) is reported first.
C8_MostRecentFirst ==
    (ListReported /\ Len(rows) > 0)
    => \A i, j \in DOMAIN rows :
          i < j => RecordPosition(response.content[1].text, rows[j].name)
                   < RecordPosition(response.content[1].text, rows[i].name)

\* the record the report is to show for a stored row
ExpectedRecord(row) ==
    <<(IF row.status = "complete" THEN CompleteGlyph ELSE PendingGlyph),
      " **", row.name, "**\n",
      "   Description: ",
      (IF row.description = None THEN "No description" ELSE row.description), "\n",
      "   Status: ", row.status, "\n",
      "   Created: ">> \o IntStr(row.created_at \div 60) \o <<"\n",
      "   ID: ">> \o IntStr(row.id) \o <<"\n">>

\* C9: listTasks reports "No tasks found" exactly when the store has no
\* rows; otherwise its one block is made of exactly one record per stored
\* row, each showing the row's name, description, current status and id,
\* with the complete icon iff the status is 'complete'; a task enters the
\* store, and so the report, as 'not complete'.
C9_ListReport ==
    /\ [](ListReported =>
            IF Len(rows) = 0
            THEN response = OneBlock(<<"No tasks found">>)
            ELSE /\ response # OneBlock(<<"No tasks found">>)
                 /\ \E p \in Permutations(DOMAIN rows) :
                       response = OneBlock(
                           Join([i \in DOMAIN rows |-> ExpectedRecord(rows[p[i]])],
                                <<"\n">>)))
    /\ [][\A i \in DOMAIN rows' : i \notin DOMAIN rows => rows'[i].status = "not complete"]_vars

\* a report of two tasks, one of them complete
C9_Witness ==
    /\ ListReported
    /\ Len(rows) = 2
    /\ \E i, j \in DOMAIN rows :
          rows[i].status = "complete" /\ rows[j].status = "not complete"

\* C10: rows are never deleted and keep their place; the id, name,
\* description and created_at of a stored row never change; its status and
\* updated_at change only by a completeTask call naming it.
C10_RowsImmutable ==
    [][/\ Len(rows') >= Len(rows)
       /\ \A i \in DOMAIN rows :
             /\ rows'[i].id = rows[i].id
             /\ rows'[i].name = rows[i].name
             /\ rows'[i].description = rows[i].description
             /\ rows'[i].created_at = rows[i].created_at
             /\ (rows'[i].status # rows[i].status
                 \/ rows'[i].updated_at # rows[i].updated_at)
                => /\ OptionOf(request') = "completeTask"
                   /\ TaskNameOf(request') = rows[i].name
                   /\ LedgerStep
    ]_vars

\* two tasks are stored and the older was completed a second after it was added
C10_Witness ==
    /\ Len(rows) = 2
    /\ rows[1].status = "complete"
    /\ rows[1].updated_at > rows[1].created_at

\* the response reports a status change made by completeTask
StatusChanged(resp) ==
    /\ resp.kind = "return"
    /\ Len(resp.content[1].text) = 7
    /\ resp.content[1].text[3] = "' status changed from '"

\* C11: the clock never goes back, and every stored task has
\* updated_at >= created_at: addTask stores the insertion time in both, and
\* a successful completeTask stores the current time in updated_at and
\* leaves created_at as it was.
C11_Timestamps ==
    /\ [][clock' >= clock]_vars
    /\ [](\A i \in DOMAIN rows : rows[i].updated_at >= rows[i].created_at)
    /\ [][\A i \in DOMAIN rows' :
            i \notin DOMAIN rows
            => rows'[i].created_at = clock /\ rows'[i].updated_at = clock]_vars
    /\ [][(/\ OptionOf(request') = "completeTask"
           /\ StatusChanged(response')
           /\ LedgerStep)
          => \A i \in DOMAIN rows :
                rows[i].name = TaskNameOf(request')
                => /\ rows'[i].updated_at = clock
                   /\ rows'[i].created_at = rows[i].created_at
       ]_vars

\* a task updated after its creation, next to a task that was added later
\* and never updated
C11_Witness ==
    \E i, j \in DOMAIN rows :
        /\ rows[i].updated_at > rows[i].created_at
        /\ rows[j].created_at > rows[i].created_at
        /\ rows[j].updated_at = rows[j].created_at

\* the step commits the write of a call of process p with this option
Commits(p, option) ==
    /\ conns[p].pc = "commit"
    /\ conns'[p].pc = "done"
    /\ Get(conns[p].arguments, "option") = option

\* C12: when two processes run completeTask on the same task in any
\* interleaving, the old status a call reports is the status that was
\* stored immediately before that call's own update took effect.
C12_AtomicComplete ==
    [][\A p \in Procs :
          Commits(p, "completeTask")
          => \A i \in DOMAIN rows :
                rows[i].name = Get(conns[p].arguments, "taskName")
                => conns[p].old = rows[i].status
    ]_vars

\* both processes have finished addTask calls of `name` that ran concurrently
\* on a store without that name
RacedAdds(name) ==
    \A p \in Procs :
        /\ conns[p].pc = "done"
        /\ conns[p].raced
        /\ Get(conns[p].arguments, "option") = "addTask"
        /\ Get(conns[p].arguments, "taskName") = name

Added(p) ==
    conns[p].result = <<[type |-> "text", text |->
        <<"Task '", Get(conns[p].arguments, "taskName"), "' added successfully">>]>>

Refused(p) ==
    conns[p].result = <<[type |-> "text", text |->
        <<"Error: Task '", Get(conns[p].arguments, "taskName"), "' already exists">>]>>

Locked(p) ==
    conns[p].result = <<[type |-> "text", text |->
        <<"Error adding task: ", "database is locked">>]>>

RowsNamed(name) == {i \in DOMAIN rows : rows[i].name = name}

\* C13 as stated: of two concurrent addTask calls with the same taskName on
\* a store without it, exactly one reports success, the other reports
\* 'already exists', and the store ends with exactly one row of that name.
C13_AddRace ==
    \A name \in TaskNames :
        RacedAdds(name)
        => /\ \E p \in Procs : Added(p) /\ \A q \in Procs \ {p} : Refused(q)
           /\ Cardinality(RowsNamed(name)) = 1

\* C13 amended: of two concurrent addTask calls with the same taskName on a
\* store without it, at most one reports success and any other reports
\* either 'already exists' or the storage failure 'database is locked' (the
\* write lock of the winner outlasted its busy timeout); the store ends with
\* one row of that name per successful call, 'already exists' is reported
\* only next to a success, and one call does succeed unless a storage
\* failure was reported.
C13_AddRaceAmended ==
    \A name \in TaskNames :
        RacedAdds(name)
        => /\ Cardinality({p \in Procs : Added(p)}) <= 1
           /\ \A p \in Procs : Added(p) \/ Refused(p) \/ Locked(p)
           /\ Cardinality(RowsNamed(name)) = Cardinality({p \in Procs : Added(p)})
           /\ (\E p \in Procs : Refused(p)) => \E p \in Procs : Added(p)
           /\ (\A p \in Procs : ~Locked(p)) => \E p \in Procs : Added(p)

\* two concurrent addTask calls of t1: one succeeded, the other ran into the
\* winner's write lock
C13_Witness ==
    /\ RacedAdds("t1")
    /\ \E p, q \in Procs : Added(p) /\ Locked(q)
    /\ Cardinality(RowsNamed("t1")) = 1

\* the step is an execute_tool call routed to the tool `name`
ToolStep(name) ==
    /\ request'.name = name
    /\ execute_tool(name, request'.arguments)

\* the last call was getWorkLog and the journal could be read
LogRead ==
    /\ request.name = "getWorkLog"
    /\ response # OneBlock(<<"Error reading work log: ", "Permission denied">>)

\* a journal entry as the claim describes it: "[<timestamp>] <description>"
Stamped(e) == <<"[">> \o IntStr(e.at) \o <<"]", " ">> \o Chars(e.description)

\* the entries es occur in `text` from position k on, in this order
RECURSIVE InOrderFrom(_, _, _)
InOrderFrom(text, k, es) ==
    \/ Len(es) = 0
    \/ \E j \in k..(Len(text) - Len(Stamped(es[1])) + 1) :
          /\ SubSeq(text, j, j + Len(Stamped(es[1])) - 1) = Stamped(es[1])
          /\ InOrderFrom(text, j + Len(Stamped(es[1])), Tail(es))

\* C14 as stated: after successful logWork calls with descriptions E1..En
\* on a journal that was absent at first, getWorkLog returns one block whose
\* text contains every Ei, in write order, each immediately preceded by its
\* bracketed timestamp and a space.
C14_RoundTrip ==
    (LogRead /\ Len(logged) > 0)
    => /\ response.kind = "return"
       /\ Len(response.content) = 1
       /\ InOrderFrom(response.content[1].text, 1, logged)

\* the journal file a sequence of written entries makes
RECURSIVE Written(_)
Written(es) ==
    IF Len(es) = 0 THEN <<>>
    ELSE Stamped(es[1]) \o <<"\n">> \o Written(Tail(es))

\* the description reads back as it was written, wherever its entry stands
ReadsBack(description) ==
    /\ "\r" \notin {Chars(description)[i] : i \in DOMAIN Chars(description)}
    /\ Chars(description)[Len(Chars(description))] \notin {" ", "\n", "\t", "\r"}

\* C14 amended: after successful logWork calls with descriptions E1..En on
\* a journal that was absent at first, getWorkLog returns one block whose
\* text is the written entries "[<timestamp>] Ei\n", one after the other,
\* with every carriage return read as a line feed and the whitespace at the
\* end of the last entry removed; it contains every Ei in write order, each
\* immediately preceded by its bracketed timestamp, when no Ei holds a
\* carriage return and the last one does not end in whitespace.
C14_RoundTripAmended ==
    (LogRead /\ Len(logged) > 0)
    => /\ response = OneBlock(Strip(ReadText(Written(logged))))
       /\ ((\A i \in DOMAIN logged :
                "\r" \notin {Chars(logged[i].description)[j] :
                                j \in DOMAIN Chars(logged[i].description)})
           /\ ReadsBack(logged[Len(logged)].description))
          => InOrderFrom(response.content[1].text, 1, logged)

\* a whitespace-only entry was written before an ordinary one, a second
\* later, and both were read back
C14_Witness ==
    /\ LogRead
    /\ Len(logged) = 2
    /\ logged[1].description = " "
    /\ logged[2].description = "w"
    /\ logged[2].at > logged[1].at
    /\ InOrderFrom(response.content[1].text, 1, logged)

\* the last step's logWork call reported success
WorkLogged(resp) ==
    /\ resp.kind = "return"
    /\ resp.content[1].text[1] = "Work logged successfully: "

IsPrefix(a, b) == Len(a) <= Len(b) /\ SubSeq(b, 1, Len(a)) = a

\* C15: the journal is append-only: whatever is called, the journal's
\* content before a step is a prefix of its content after it and the file
\* never disappears; a successful logWork extends the content by exactly
\* "[<timestamp>] <description>\n", and nothing else changes the journal.
C15_AppendOnly ==
    [][/\ IsPrefix(journal.content, journal'.content)
       /\ journal.exists => journal'.exists
       /\ (WorkLogged(response') /\ ToolStep("logWork"))
          => /\ journal'.exists
             /\ journal'.content =
                   journal.content
                   \o <<"[">> \o IntStr(clock) \o <<"]", " ">>
                   \o Chars(DescriptionOf(request')) \o <<"\n">>
       /\ journal' # journal => (WorkLogged(response') /\ ToolStep("logWork"))
    ]_vars

\* a second entry was appended, a second after the first
C15_Witness ==
    /\ request.name = "logWork"
    /\ WorkLogged(response)
    /\ Len(logged) = 2
    /\ logged[1].at < logged[2].at
    /\ journal.content = Written(logged)

Blank == {" ", "\n", "\t", "\r"}

\* cs from its first to its last character that is not blank
Trimmed(cs) ==
    LET ink == {i \in DOMAIN cs : cs[i] \notin Blank}
    IN  IF ink = {} THEN <<>>
        ELSE SubSeq(cs, CHOOSE i \in ink : \A j \in ink : i <= j,
                        CHOOSE i \in ink : \A j \in ink : i >= j)

NoJournalReport ==
    OneBlock(<<"No work log entries found. The work log file does not exist.">>)
EmptyJournalReport == OneBlock(<<"Work log is empty.">>)

\* C16 as stated: getWorkLog, whatever its arguments, returns the "does not
\* exist" report iff the journal file is absent, "Work log is empty." iff
\* the file exists and is empty or all blank, and otherwise exactly the
\* file's content without its leading and trailing blanks.
C16_ReadLog ==
    LogRead
    => /\ response = NoJournalReport <=> ~journal.exists
       /\ response = EmptyJournalReport
             <=> (journal.exists /\ Trimmed(journal.content) = <<>>)
       /\ (journal.exists /\ Trimmed(journal.content) # <<>>)
             => response = OneBlock(Trimmed(journal.content))

\* C16 amended: getWorkLog, whatever its arguments, returns the "does not
\* exist" report when the journal file is absent, "Work log is empty."
\* when the file exists and is empty or all blank, and otherwise the file's
\* content with CR LF and CR read as LF and without its leading and
\* trailing blanks (which is one of the two reports again when the file
\* holds that very sentence).
C16_ReadLogAmended ==
    LogRead
    => response =
         IF ~journal.exists THEN NoJournalReport
         ELSE IF Trimmed(journal.content) = <<>> THEN EmptyJournalReport
         ELSE OneBlock(Trimmed(ReadText(journal.content)))

\* a journal with blanks around and inside its text was read by a call that
\* passed an argument
C16_Witness ==
    /\ LogRead
    /\ DescriptionOf(request) = "w"
    /\ journal.content = <<"\n", "x", " ", "\n", "y", " ", "\n">>
    /\ response = OneBlock(<<"x", " ", "\n", "y">>)

NoDescriptionReport == OneBlock(<<"Error: No work description provided">>)

\* C17: logWork refuses a description that is missing, None or the empty
\* string, and no other: such a call returns "Error: No work description
\* provided" and leaves the journal as it was, not creating the file; a
\* call with any other description, a blank one too, is accepted: it
\* appends the entry and reports success, unless writing the file fails.
C17_Description ==
    [][ToolStep("logWork")
       => IF DescriptionOf(request') \in {None, ""}
          THEN /\ response' = NoDescriptionReport
               /\ UNCHANGED journal
          ELSE \/ /\ WorkLogged(response')
                  /\ journal'.exists
                  /\ journal'.content =
                        journal.content
                        \o <<"[">> \o IntStr(clock) \o <<"]", " ">>
                        \o Chars(DescriptionOf(request')) \o <<"\n">>
               \/ /\ response' = OneBlock(<<"Error logging work: ", "Permission denied">>)
                  /\ UNCHANGED journal
    ]_vars

\* a blank description was accepted and started the journal, and then a
\* description given as None was refused and left the journal as it was
C17_Witness ==
    /\ request.name = "logWork"
    /\ "description" \in DOMAIN request.arguments
    /\ request.arguments["description"] = None
    /\ response = NoDescriptionReport
    /\ Len(logged) = 1
    /\ logged[1].description = " "
    /\ journal = [exists |-> TRUE, content |-> <<"[", "0", "]", " ", " ", "\n">>]

FileOf(req) == Get(req.arguments, "file")
AnalysisOf(req) == GetOr(req.arguments, "options", "")

\* the path analyzeFile reports for the file a request names
PathOf(req) ==
    IF Chars(FileOf(req))[1] = "/" THEN Chars(FileOf(req))
    ELSE <<"/", "s", "r", "v", "/">> \o Chars(FileOf(req))

\* the file a request names is there, and what is stored in it
OnDisk(req) ==
    \/ PathOf(req) \in DOMAIN Disk
    \/ PathOf(req) = Chars("/srv") \o <<"/">> \o Chars("work_log.txt") /\ journal.exists
Stored(req) ==
    IF PathOf(req) \in DOMAIN Disk THEN Disk[PathOf(req)] ELSE journal.content

ReadFailure == OneBlock(<<"Error reading file: ", "Permission denied">>)

\* the last call was an analyzeFile of a file that is there and was read
Analysed(option) ==
    /\ request.name = "analyzeFile"
    /\ Present(FileOf(request))
    /\ AnalysisOf(request) = option
    /\ OnDisk(request)
    /\ response # ReadFailure

\* the line ends of a file: LF, CR LF, or CR alone
LineEnds(cs) ==
    {i \in DOMAIN cs :
        \/ cs[i] = "\n"
        \/ cs[i] = "\r" /\ ~(i < Len(cs) /\ cs[i + 1] = "\n")}

\* the line records of a file: its terminated lines, and one more for what
\* follows the last line end, if anything does
Records(cs) ==
    Cardinality(LineEnds(cs))
    + (IF Len(cs) > 0 /\ Len(cs) \notin LineEnds(cs) THEN 1 ELSE 0)

\* C18: analyzeFile with option lineCount, on a file it can read, reports
\* the number of line records of the file: 0 for an empty file, N for a
\* file of N lines that each end in a terminator, and one more when a
\* non-empty fragment follows the last terminator.
C18_LineCount ==
    Analysed("lineCount")
    => /\ response = OneBlock(<<"File '">> \o PathOf(request) \o <<"' has ">>
                              \o IntStr(Records(Stored(request))) \o <<" lines">>)
       /\ Stored(request) = <<>> => Records(Stored(request)) = 0
       /\ (Len(Stored(request)) > 0 /\ Len(Stored(request)) \in LineEnds(Stored(request)))
             => Records(Stored(request)) = Cardinality(LineEnds(Stored(request)))

\* the lines of /c.py were counted: two terminated ones and a final fragment
C18_Witness ==
    /\ Analysed("lineCount")
    /\ FileOf(request) = "/c.py"
    /\ response = OneBlock(<<"File '", "/", "c", ".", "p", "y", "' has ", "3", " lines">>)

\* some line of the file holds the four letters TODO, in upper case
HasMarker(cs) ==
    \E i \in DOMAIN cs :
        /\ i + 3 <= Len(cs)
        /\ cs[i] = "T" /\ cs[i + 1] = "O" /\ cs[i + 2] = "D" /\ cs[i + 3] = "O"

\* C19: analyzeFile with option hasTodos, on a file it can read, reports
\* "has a TODO comment" iff some line of the file contains TODO in exactly
\* these upper-case letters, wherever in the line, and "does not have a
\* TODO comment" otherwise; "todo" in another letter case does not count.
C19_HasTodos ==
    Analysed("hasTodos")
    => response =
         IF HasMarker(Stored(request))
         THEN OneBlock(<<"File '">> \o PathOf(request) \o <<"' has a TODO comment">>)
         ELSE OneBlock(<<"File '">> \o PathOf(request)
                        \o <<"' does not have a TODO comment">>)

\* /b.py, which holds "todo" in lower case only, was reported as having none
C19_Witness ==
    /\ Analysed("hasTodos")
    /\ FileOf(request) = "/b.py"
    /\ Stored(request) = <<"t", "o", "d", "o", "\n">>
    /\ response = OneBlock(<<"File '", "/", "b", ".", "p", "y",
                             "' does not have a TODO comment">>)

\* a report of a finished analysis
AnalysisReport ==
    /\ response.kind = "return"
    /\ Len(response.content) = 1
    /\ response.content[1].text[1] = "File '"
    /\ response.content[1].text[Len(response.content[1].text)]
          \in {" lines", "' has a TODO comment", "' does not have a TODO comment"}

BoundTo(registry, name) ==
    {registry[i] : i \in {j \in DOMAIN registry : registry[j].name = name}}

\* the two blocks by which the stub tool is known
StubBlocks ==
    <<[type |-> "text", text |-> <<"stub">>],
      [type |-> "text", text |-> <<"second block">>]>>

\* C21: register_tool never fails and the last registration wins: a
\* registration of any tool is always possible, raises nothing, and leaves
\* that tool as the only one bound to its name, the other names bound as
\* before; execute_tool of a registered name runs the tool bound to it, so
\* a tool registered earlier under that name is never run again.
C21_LastWins ==
    /\ [](calls < MaxCalls
           => \A tool \in Registrable :
                 ENABLED (Call /\ UNCHANGED conns /\ register_tool(tool)))
    /\ [][\A tool \in Registrable :
            register_tool(tool)
            => /\ BoundTo(tools', tool.name) = {tool}
               /\ \A name \in ToolNames \ {tool.name} :
                     BoundTo(tools', name) = BoundTo(tools, name)
               /\ response' = response
       ]_vars
    /\ [][ExecuteStep
          => /\ Cardinality(BoundTo(tools, request'.name)) <= 1
             /\ \A tool \in BoundTo(tools, request'.name) :
                   /\ executed'[1].tool = tool.name
                   /\ (tool.kind = "StubTool") <=> (response'.content = StubBlocks)
       ]_vars

\* a stub was registered under the name taskManager and the next call of
\* that name ran the stub, not the task manager
C21_Witness ==
    /\ request.name = "taskManager"
    /\ BoundTo(tools, "taskManager") = {[name |-> "taskManager", kind |-> "StubTool"]}
    /\ response = [kind |-> "return", content |-> StubBlocks]
    /\ rows = <<>>

\* the names of the listed definitions, in the order of the list
ListedNames == [i \in DOMAIN get_tool_definitions |-> get_tool_definitions[i].name]

\* the arguments a tool of this kind declares as required
RequiredKeys(kind) ==
    IF kind = "AnalyzeFileTool" THEN <<"file", "options">>
    ELSE IF kind = "WorkLoggingTool" THEN <<"description">>
    ELSE IF kind = "TaskManagerTool" THEN <<"option">>
    ELSE <<>>

\* C22 as stated: get_tool_definitions lists the registered tools in the
\* order in which those tools were registered, so the tool registered by
\* the latest register_tool call is the last of the list.
C22_RegistrationOrder ==
    [][\A tool \in Registrable :
          register_tool(tool)
          => get_tool_definitions'[Len(get_tool_definitions')] = tool_definition(tool)
    ]_vars

\* C22 amended: get_tool_definitions lists exactly the definitions of the
\* tools now registered, one per name and no name twice, in the order in
\* which the names were first registered: a tool registered under a new name
\* is listed last, a tool registered under a name already there takes the
\* place of the tool it replaces, and nothing else changes the list. After
\* construction the list is analyzeFile, logWork, getWorkLog, taskManager.
C22_RegistrationOrderAmended ==
    /\ ListedNames = <<"analyzeFile", "logWork", "getWorkLog", "taskManager">>
    /\ [](/\ \A i, j \in DOMAIN ListedNames : ListedNames[i] = ListedNames[j] => i = j
          /\ {ListedNames[i] : i \in DOMAIN ListedNames}
                = {name \in ToolNames : IsRegistered(name)}
          /\ \A i \in DOMAIN get_tool_definitions :
                \E tool \in BoundTo(tools, ListedNames[i]) :
                    get_tool_definitions[i] =
                        [name |-> tool.name, required |-> RequiredKeys(tool.kind)])
    /\ [][\A tool \in Registrable :
            register_tool(tool)
            => ListedNames' =
                 IF \E i \in DOMAIN ListedNames : ListedNames[i] = tool.name
                 THEN ListedNames
                 ELSE Append(ListedNames, tool.name)
       ]_vars
    /\ [][get_tool_definitions' # get_tool_definitions
          => \E tool \in Registrable : register_tool(tool)]_vars

\* echo was registered and then a stub replaced the task manager: the stub
\* is listed in the task manager's place, before echo
C22_Witness ==
    /\ ListedNames = <<"analyzeFile", "logWork", "getWorkLog", "taskManager", "echo">>
    /\ get_tool_definitions[4] = [name |-> "taskManager", required |-> <<>>]

\* the error kind a taskManager message shows by its pattern
PatternKind(text) ==
    IF text[1] \in {"Error adding task: ", "Error listing tasks: ", "Error updating task: "}
    THEN "generic-storage-failure"
    ELSE IF text[1] \in {"Error: taskName and description are required for addTask",
                         "Error: taskName and completionStatus are required for completeTask"}
    THEN "missing-required-argument"
    ELSE IF text[1] = "Error: Invalid option provided" THEN "unknown-enum-value"
    ELSE IF text[1] = "Error: Task '" /\ text[Len(text)] = "' not found"
    THEN "resource-not-found"
    ELSE IF text[1] = "Error: Task '" /\ text[Len(text)] = "' already exists"
    THEN "duplicate-key"
    ELSE "none"

\* C23: the error kinds of a taskManager response can be told apart by the
\* pattern of its message: unless the database itself fails, a duplicate
\* name shows the duplicate-key pattern, an unknown option the
\* unknown-enum-value pattern, and a completionStatus that is neither
\* 'complete' nor 'not complete' shows a pattern that is not that of a
\* generic storage failure.
C23_ErrorKinds ==
    (request.name = "taskManager" /\ response \notin StorageFailureReports)
    => LET kind == PatternKind(response.content[1].text)
       IN  /\ (/\ OptionOf(request) = "addTask"
               /\ Present(DescriptionOf(request))
               /\ Present(TaskNameOf(request))
               /\ kind # "none")
              => kind = "duplicate-key"
           /\ OptionOf(request) \notin {"addTask", "listTasks", "completeTask"}
              => kind = "unknown-enum-value"
           /\ (/\ OptionOf(request) = "completeTask"
               /\ Present(TaskNameOf(request))
               /\ Present(StatusOf(request))
               /\ StatusOf(request) \notin ValidStatuses)
              => kind # "generic-storage-failure"

\* the path string of the last resolve_file_path call, and what it returned
Resolved == request.name = "resolve_file_path" /\ response.kind = "return"

\* a path in pathlib's normal form: no empty and no "." segment
Normalised(cs) == Path(cs) = cs

\* C24 as stated: path resolution returns an absolute path unchanged, joins
\* a relative path to the project root, is idempotent, and the resolution
\* written out in analyzeFile gives the same result.
C24_PathResolution ==
    Resolved
    => LET file_path == request.arguments.file_path
           result == response.content
       IN  /\ isabs(file_path) => result = file_path
           /\ ~isabs(file_path)
              => result = Render(<<"/">>, Parts(Chars(ProjectRoot))
                                          \o Parts(file_path))
           /\ resolve_file_path(result) = result
           /\ InlineResolve(file_path) = result

\* C24 amended: path resolution is defined for every path string and
\* touches nothing; an absolute path comes back as the same path in normal
\* form (empty and "." segments dropped, ".." kept, a root of exactly two
\* slashes kept), unchanged when it already is in normal form; a relative
\* path comes back as the project root followed by its segments; the result
\* is absolute and in normal form, so resolving it again returns it
\* unchanged; and the resolution written out in analyzeFile gives the same
\* result.
C24_PathResolutionAmended ==
    /\ [](Resolved
          => LET file_path == request.arguments.file_path
                 result == response.content
             IN  /\ isabs(result) /\ Normalised(result)
                 /\ isabs(file_path)
                    => /\ result = Render(SplitRoot(file_path),
                                          Parts(file_path))
                       /\ Normalised(file_path) => result = file_path
                 /\ ~isabs(file_path)
                    => result = Render(<<"/">>, Parts(Chars(ProjectRoot))
                                                \o Parts(file_path))
                 /\ resolve_file_path(result) = result
                 /\ InlineResolve(file_path) = result)
    /\ [](\A file_path \in PathStrings :
             isabs(resolve_file_path(file_path)))
    /\ [][Resolve => UNCHANGED <<tools, rows, nextId, journal>>]_vars

\* an absolute path with an empty and a "." segment came back in normal form
C24_Witness ==
    /\ Resolved
    /\ request.arguments.file_path = <<"/", "a", "/", ".">>
    /\ response.content = <<"/", "a">>
    /\ rows = <<>> /\ ~journal.exists

\* the lines a reader of the file finds: what stands before each line end,
\* and what follows the last one, if anything does
RECURSIVE LinesOfText(_)
LinesOfText(cs) ==
    IF \E i \in DOMAIN cs : cs[i] = "\n"
    THEN LET i == CHOOSE k \in DOMAIN cs :
                     cs[k] = "\n" /\ \A j \in 1..(k - 1) : cs[j] # "\n"
         IN  <<SubSeq(cs, 1, i - 1)>> \o LinesOfText(SubSeq(cs, i + 1, Len(cs)))
    ELSE IF cs = <<>> THEN <<>> ELSE <<cs>>

Lines(cs) == LinesOfText(ReadText(cs))

\* the description holds a line break
Breaks(description) == LineEnds(Chars(description)) # {}

\* the journal is a file of one line per logWork call, each line the
\* bracketed timestamp, a space and the description of that call
OneLineEach ==
    /\ Cardinality(LineEnds(journal.content)) = Len(logged)
    /\ Lines(journal.content) = [i \in 1..Len(logged) |-> Stamped(logged[i])]

\* C25 as stated: after n successful logWork calls on a journal that was
\* absent at first, whatever the non-empty descriptions, the journal file
\* holds exactly n line terminators and each line is the bracketed
\* timestamp, a space and the description.
C25_OneLine == journal.exists => OneLineEach

\* C25 amended: after n successful logWork calls on a journal that was
\* absent at first, the journal file is the n entries in call order, each
\* the bracketed timestamp, a space, the description and one line feed;
\* when no description holds a line break, the file holds exactly n line
\* terminators and each line is the bracketed timestamp, a space and the
\* description; a description with a line break spreads its entry over
\* more than one line.
C25_OneLineAmended ==
    journal.exists
    => /\ Len(logged) > 0
       /\ journal.content = Written(logged)
       /\ (\A i \in DOMAIN logged : ~Breaks(logged[i].description))
             => OneLineEach
       /\ (\E i \in DOMAIN logged : Breaks(logged[i].description))
             => Cardinality(LineEnds(journal.content)) > Len(logged)

\* two entries without line breaks were logged: the journal has two lines
C25_Witness ==
    /\ logged = <<[description |-> "w", at |-> 0],
                  [description |-> " ", at |-> 1]>>
    /\ journal.content = <<"[", "0", "]", " ", "w", "\n",
                           "[", "1", "]", " ", " ", "\n">>
    /\ Lines(journal.content) = << <<"[", "0", "]", " ", "w">>,
                                   <<"[", "1", "]", " ", " ">> >>

\* C26: for every request the dispatcher starts at most one tool execute,
\* that of the tool bound to the requested name, and the response of the
\* request is made from the outcome of that execute once it has ended: its
\* blocks when it returned, its exception when it raised; a request for a
\* name that is not registered starts no execute, and no response is made
\* outside a request.
C26_OneExecute ==
    /\ [][ExecuteStep
           => /\ Len(executed') <= 1
              /\ IsRegistered(request'.name)
                 => /\ Len(executed') = 1
                    /\ \A tool \in BoundTo(tools, request'.name) :
                           executed'[1].tool = tool.name
                    /\ response' = IF executed'[1].raised = None
                                    THEN [kind |-> "return",
                                          content |-> executed'[1].result]
                                    ELSE [kind |-> "raise", error |-> "Exception",
                                          text |-> <<executed'[1].raised>>]
              /\ ~IsRegistered(request'.name)
                 => /\ executed' = <<>>
                    /\ response'.kind = "raise"
                    /\ response'.error = "ValueError"]_vars
    /\ [][(response' # response \/ executed' # executed)
           => \E name \in ToolNames : \E arguments \in ArgumentsFor(name) :
                 request' = [name |-> name, arguments |-> arguments]]_vars

\* a request for echo before echo was registered started nothing, and the
\* request for logWork before it ran logWork once and answered from it
C26_Witness ==
    /\ request.name = "echo"
    /\ ~IsRegistered("echo")
    /\ executed = <<>>
    /\ response.kind = "raise"
    /\ journal.exists
    /\ Len(logged) = 1

\* the last call was an addTask that stored its task
AddedTask(req, resp) ==
    /\ OptionOf(req) = "addTask"
    /\ resp = OneBlock(<<"Task '", TaskNameOf(req), "' added successfully">>)

\* C27: task ids are assigned by the store, strictly increasing in
\* insertion order and never reused: a successful addTask gives its task an
\* id larger than every id assigned before, every other call (rejected
\* addTask included) assigns and uses up no id, and the id of a stored task
\* never changes.
C27_TaskIds ==
    /\ [](/\ \A i, j \in DOMAIN rows : i < j => rows[i].id < rows[j].id
          /\ \A i \in DOMAIN rows : 0 < rows[i].id /\ rows[i].id < nextId)
    /\ [][/\ nextId' >= nextId
           /\ Len(rows') >= Len(rows)
           /\ \A i \in DOMAIN rows : rows'[i].id = rows[i].id]_vars
    /\ [][(AddedTask(request', response') /\ LedgerStep)
           => /\ Len(rows') = Len(rows) + 1
              /\ rows'[Len(rows')].name = TaskNameOf(request')
              /\ rows'[Len(rows')].id >= nextId
              /\ nextId' > rows'[Len(rows')].id]_vars
    /\ [][(~AddedTask(request', response') /\ LedgerStep)
           => /\ nextId' = nextId
              /\ Len(rows') = Len(rows)]_vars

\* t1 and t2 were stored with ids 1 and 2, and the addTask of t2 once more
\* was rejected without using up an id
C27_Witness ==
    /\ Len(rows) = 2
    /\ rows[1].id = 1 /\ rows[2].id = 2
    /\ rows[2].name = "t2"
    /\ nextId = 3
    /\ OptionOf(request) = "addTask"
    /\ response = OneBlock(<<"Error: Task '", "t2", "' already exists">>)

\* the logWork call of process p has ended with its success report
LoggedBy(p) ==
    /\ conns[p].pc = "done"
    /\ Len(conns[p].result) = 1
    /\ conns[p].result[1].text[1] = "Work logged successfully: "

\* the last calls of the two processes were successful logWork calls that
\* ran at the same time
LoggedTogether == \A p \in Procs : LoggedBy(p) /\ conns[p].raced

\* C28: concurrent journal writes lose nothing: whatever the interleaving
\* of the statements of two logWork calls in two processes, each successful
\* call adds its whole entry after everything the file holds at that
\* moment, the file is at all times the entries of the ended calls, each
\* once and whole, and after two concurrent successful calls it ends with
\* their two entries in one of the two orders.
C28_ConcurrentAppend ==
    /\ [](journal.content = Written(logged))
    /\ [][\A p \in Procs :
             (conns[p].pc = "close" /\ conns'[p].pc = "done")
             => journal'.content = journal.content \o conns[p].log_entry]_vars
    /\ [](LoggedTogether
          => /\ Len(logged) >= 2
             /\ \E p, q \in Procs :
                   /\ p # q
                   /\ journal.content =
                         Written(SubSeq(logged, 1, Len(logged) - 2))
                         \o conns[p].log_entry \o conns[q].log_entry)

\* two calls ran at the same time and the one that began later, at second
\* 1, wrote first: its entry stands whole before the entry stamped 0
C28_Witness ==
    /\ LoggedTogether
    /\ journal.content = <<"[", "1", "]", " ", "w", "\n",
                           "[", "0", "]", " ", " ", "\n">>

\* C29: every operation changes at most its own backing resource:
\* getWorkLog, analyzeFile and the listTasks option of taskManager change
\* neither the task store nor the journal, taskManager with any option
\* never changes the journal, logWork never changes the task store, no
\* execute_tool call changes the registry, and a call of a name that is
\* not registered fails and changes nothing at all.
C29_Frame ==
    [][ExecuteStep
       => /\ tools' = tools
          /\ request'.name \in {"getWorkLog", "analyzeFile"}
             => /\ rows' = rows /\ nextId' = nextId
                /\ journal' = journal
          /\ request'.name = "taskManager"
             => /\ journal' = journal
                /\ OptionOf(request') \notin {"addTask", "completeTask"}
                   => rows' = rows /\ nextId' = nextId
          /\ request'.name = "logWork"
             => rows' = rows /\ nextId' = nextId
          /\ ~IsRegistered(request'.name)
             => /\ response'.kind = "raise"
                /\ rows' = rows /\ nextId' = nextId
                /\ journal' = journal]_vars

\* analyzeFile counted the lines of the journal itself, after one logWork,
\* and the journal still holds its one entry and the store nothing
C29_Witness ==
    /\ request.name = "analyzeFile"
    /\ FileOf(request) = JournalFile
    /\ Analysed("lineCount")
    /\ Len(logged) = 1
    /\ journal.content = Written(logged)
    /\ rows = <<>>

\* the request asks for the status the stored task i already has
SameStatus(req, i) ==
    /\ OptionOf(req) = "completeTask"
    /\ TaskNameOf(req) = rows[i].name
    /\ StatusOf(req) = rows[i].status

\* C30: completeTask is idempotent on the stored status: completeTask(name,
\* s) on a stored task whose status already is s succeeds, unless the
\* database itself fails, reports "status changed from '<s>' to '<s>'" and
\* leaves the status s and every other task as it was, so that after a
\* successful completeTask(name, s) a second one leaves the same stored
\* status as the first.
C30_Idempotent ==
    /\ [][\A i \in DOMAIN rows :
             (/\ SameStatus(request', i)
              /\ response' \notin StorageFailureReports
              /\ LedgerStep)
             => /\ response' = OneBlock(
                       <<"Task '", rows[i].name, "' status changed from '",
                         rows[i].status, "' to '", rows[i].status, "'">>)
                /\ rows'[i].status = rows[i].status
                /\ [j \in DOMAIN rows' |-> rows'[j].status]
                      = [j \in DOMAIN rows |-> rows[j].status]
                /\ \A j \in DOMAIN rows \ {i} : rows'[j] = rows[j]]_vars
    /\ [](StatusChanged(response)
          => \E i \in DOMAIN rows : SameStatus(request, i))

\* t1, already complete, was completed once more, a second later
C30_Witness ==
    /\ response = OneBlock(<<"Task '", "t1", "' status changed from '",
                             "complete", "' to '", "complete", "'">>)
    /\ \E i \in DOMAIN rows :
          /\ rows[i].name = "t1"
          /\ rows[i].status = "complete"
          /\ rows[i].updated_at = clock
          /\ rows[i].updated_at > rows[i].created_at

====
